---- MODULE Spec2Model ----
(***************************************************************************)
(* A model of the coredns redis plugin: the location resolver, the TTL     *)
(* clamp, TXT chunking, the zone catalog scan and its readers, the record  *)
(* synthesizers and AXFR (src/redis.go), and the decaying-TTL record       *)
(* loader and zone listing (src/unnamed/part_000).                         *)
(*                                                                         *)
(* Go strings are modelled as sequences of one-character strings, so that  *)
(* prefix/suffix tests and splitting are computed and not assumed.         *)
(***************************************************************************)
EXTENDS Integers, Sequences, FiniteSets, TLC

VARIABLES
    \* ---- TTL clamp (redis.Ttl and one application of minTtl)
    Ttl,            \* redis.Ttl, the configured zone ceiling
    recTtl,         \* the record-level ttl last passed to minTtl
    effTtl,         \* what minTtl returned for it
    ttlApplied,     \* has minTtl been applied yet
    \* ---- TXT synthesis
    txtText,        \* record.TXT[0].Text, a sequence of bytes
    txtAnswers,     \* the RRs TXT() produced, each a sequence of chunks
    txtDone,        \* has TXT() run yet
    \* ---- location resolver
    Locations,      \* z.Locations, the labels known in the zone
    query,          \* the name last passed to findLocation
    location,       \* what findLocation returned for it
    field,          \* the hash field get() reads for that location
    looked,         \* has a lookup been made yet
    \* ---- zone catalog
    keyPrefix,      \* redis.keyPrefix
    keySuffix,      \* redis.keySuffix
    Zones,          \* redis.Zones
    LastZoneUpdate, \* redis.LastZoneUpdate
    lastKeyCount,   \* redis.lastKeyCount
    dbKeys,         \* the zone names that have a key in the backend
    now,            \* the wall clock
    lzPc,           \* where the LoadZones call is
    cursor,         \* LoadZones' local cursor
    zones,          \* LoadZones' local zones
    keysSeen,       \* LoadZones' local keysSeen
    scans,          \* SCAN commands sent by this call
    before,         \* Zones, LastZoneUpdate, lastKeyCount when the call began
    seen,           \* what a query read from redis.Zones during this refresh
    listed,         \* what LoadAllZoneNames returned after this refresh
    \* ---- aggregated layout: get and the A synthesizer
    hash,           \* the zone's backend hash: field -> stored value
    poolConn,       \* does Pool.Get hand out a connection
    hgetFails,      \* does the HGET command fail
    getKey,         \* the key passed to get
    record,         \* what get returned
    answers,        \* what A() made of it
    getDone,        \* has the lookup run yet
    synth,          \* the synthesizer run last for a query, and what it returned
    records,        \* what AXFR returned
    axfrDone,       \* has AXFR run yet
    \* ---- per-type layout: LoadZoneRecords and the decaying TTL
    rows,           \* backend: key name -> stored row text ("" when absent)
    ttlKeys,        \* backend: key name -> remaining lifetime of its :ttl key
    target,         \* the RRset the callers ask for
    calls,          \* LoadZoneRecords calls started so far
    pend,           \* per caller: the call in progress
    lastCall,       \* the call that finished last, and what it did
    decayed         \* remaining lifetimes reported for A/h. while its key lives

ttlVars == <<Ttl, recTtl, effTtl, ttlApplied>>
txtVars == <<txtText, txtAnswers, txtDone>>
locVars == <<Locations, query, location, field, looked>>
catConfig == <<keyPrefix, keySuffix, dbKeys>>
catFields == <<Zones, LastZoneUpdate, lastKeyCount>>
catLocals == <<cursor, zones, keysSeen, scans>>
catReads == <<seen, listed>>
catVars == <<catConfig, catFields, catLocals, now, lzPc, before, catReads>>
getVars ==
    <<hash, poolConn, hgetFails, getKey, record, answers, getDone, synth, records, axfrDone>>
rrVars == <<rows, ttlKeys, target, calls, pend, lastCall, decayed>>
vars == <<ttlVars, txtVars, locVars, catVars, getVars, rrVars>>

(***************************************************************************)
(* String helpers (Go's strings package, on character sequences)           *)
(***************************************************************************)
HasPrefix(s, p) == Len(p) <= Len(s) /\ SubSeq(s, 1, Len(p)) = p
HasSuffix(s, p) == Len(p) <= Len(s) /\ SubSeq(s, Len(s) - Len(p) + 1, Len(s)) = p
TrimPrefix(s, p) == IF HasPrefix(s, p) THEN SubSeq(s, Len(p) + 1, Len(s)) ELSE s
TrimSuffix(s, p) == IF HasSuffix(s, p) THEN SubSeq(s, 1, Len(s) - Len(p)) ELSE s

(***************************************************************************)
(* TTL clamp                                                               *)
(***************************************************************************)
MaxTtl == 60
defaultTtl == 360

minTtl_ignoresCeiling(ttl) ==
    IF Ttl = 0 /\ ttl = 0 THEN defaultTtl
    ELSE IF Ttl = 0 THEN ttl
    ELSE IF ttl = 0 THEN Ttl
    ELSE ttl

minTtl(ttl) ==
    IF Ttl = 0 /\ ttl = 0 THEN defaultTtl
    ELSE IF Ttl = 0 THEN ttl
    ELSE IF ttl = 0 THEN Ttl
    ELSE IF Ttl < ttl THEN Ttl
    ELSE ttl

\* The configured ceiling and the record-level ttl of the record at hand.
TtlInit ==
    /\ Ttl \in 0..MaxTtl
    /\ recTtl \in 0..MaxTtl
    /\ effTtl = 0
    /\ ttlApplied = FALSE

TtlIdle ==
    /\ Ttl = 0
    /\ recTtl = 0
    /\ effTtl = 0
    /\ ttlApplied = FALSE

\* One synthesizer asking for the effective TTL of a record-level ttl.
MinTtl ==
    /\ ~ttlApplied
    /\ effTtl' = minTtl(recTtl)
    /\ ttlApplied' = TRUE
    /\ UNCHANGED <<Ttl, recTtl>>
    /\ UNCHANGED <<txtVars, locVars, catVars, getVars, rrVars>>

(***************************************************************************)
(* TXT chunking                                                            *)
(***************************************************************************)
MaxTextLen == 520
NumSeeds == 2
chunkLen == 255

\* A text of n bytes; the seed varies the content.
MkText(n, seed) == [i \in 1..n |-> (i * seed) % 7]

\* s[p:i] and s[p:] of Go, with 0-based half-open bounds.
Slice(s, p, i) == SubSeq(s, p + 1, i)
SliceFrom(s, p) == SubSeq(s, p + 1, Len(s))

RECURSIVE split255Loop(_, _, _, _)
split255Loop(s, sx, p, i) ==
    IF i <= Len(s)
    THEN split255Loop(s, Append(sx, Slice(s, p, i)), p + chunkLen, i + chunkLen)
    ELSE Append(sx, SliceFrom(s, p))

RECURSIVE split255LoopDropTail(_, _, _, _)
split255LoopDropTail(s, sx, p, i) ==
    IF i <= Len(s)
    THEN split255LoopDropTail(s, Append(sx, Slice(s, p, i)), p + chunkLen, i + chunkLen)
    ELSE sx

split255_dropTail(s) ==
    IF Len(s) < chunkLen THEN <<s>> ELSE split255LoopDropTail(s, <<>>, 0, chunkLen)

split255(s) ==
    IF Len(s) < chunkLen THEN <<s>> ELSE split255Loop(s, <<>>, 0, chunkLen)

\* The stored record holds one TXT entry.
TxtInit ==
    /\ txtText \in {MkText(n, seed) : n \in 0..MaxTextLen, seed \in 1..NumSeeds}
    /\ txtAnswers = <<>>
    /\ txtDone = FALSE

TxtIdle ==
    /\ txtText = <<>>
    /\ txtAnswers = <<>>
    /\ txtDone = FALSE

\* TXT() for that record: an empty text is skipped.
TXT ==
    /\ ~txtDone
    /\ txtAnswers' = IF Len(txtText) = 0 THEN <<>> ELSE <<split255(txtText)>>
    /\ txtDone' = TRUE
    /\ UNCHANGED txtText
    /\ UNCHANGED <<ttlVars, locVars, catVars, getVars, rrVars>>

RECURSIVE Concat(_)
Concat(ss) == IF ss = <<>> THEN <<>> ELSE Head(ss) \o Concat(Tail(ss))

CeilDiv(n, d) == (n + d - 1) \div d

(***************************************************************************)
(* Location resolver                                                       *)
(***************************************************************************)
MaxLabels == 3
MaxLocs == 2

ZoneName == <<"z", ".">>
Dot == <<".">>
Apex == <<"@">>

\* Names of up to n labels: a first label from `first`, the others from `rest`.
RECURSIVE Tails(_, _)
Tails(rest, n) ==
    IF n = 0 THEN {<<>>}
    ELSE LET shorter == Tails(rest, n - 1)
         IN  shorter \cup {Dot \o l \o t : l \in rest, t \in shorter}

NamesOf(first, rest, n) == {l \o t : l \in first, t \in Tails(rest, n - 1)}

\* Relative names stored as hash fields of the zone, and the apex.  The label
\* "ba" ends with the characters of the label "a" without being beneath it.
LocNames ==
    NamesOf({<<"a">>, <<"b", "a">>, <<"*">>}, {<<"a">>, <<"b">>}, MaxLabels)
        \cup {Apex}
\* Relative names asked for; "x" is a label no location has.
QueryNames == NamesOf({<<"a">>, <<"b">>, <<"x">>}, {<<"a">>, <<"b">>}, MaxLabels)
\* Queries arrive fully qualified: the zone itself or a name beneath it.
Queries == {ZoneName} \cup {r \o Dot \o ZoneName : r \in QueryNames}

RECURSIVE SubsetsUpTo(_, _)
SubsetsUpTo(S, k) ==
    IF k = 0 THEN {{}}
    ELSE LET smaller == SubsetsUpTo(S, k - 1)
         IN  smaller \cup {p \cup {x} : p \in smaller, x \in S}

\* The zone as load() builds it from HKEYS.
Zone == [Name |-> ZoneName, Locations |-> Locations]

keyExists(key, z) == key \in z.Locations

keyMatches(key, z) == \E value \in z.Locations : HasSuffix(value, key)

\* Index of the first "." of s, 0 when there is none.
RECURSIVE IndexDot(_, _)
IndexDot(s, i) ==
    IF i > Len(s) THEN 0
    ELSE IF s[i] = "." THEN i
    ELSE IndexDot(s, i + 1)

\* strings.SplitAfterN(s, ".", 2)
SplitAfterN2(s) ==
    LET i == IndexDot(s, 1)
    IN  IF i = 0 THEN <<s>> ELSE <<SubSeq(s, 1, i), SubSeq(s, i + 1, Len(s))>>

splitQuery(q) ==
    IF q = <<>>
    THEN [closestEncloser |-> <<>>, sourceOfSynthesis |-> <<>>, ok |-> FALSE]
    ELSE LET splits == SplitAfterN2(q)
         IN  IF Len(splits) = 2
             THEN [closestEncloser |-> splits[2],
                   sourceOfSynthesis |-> <<"*", ".">> \o splits[2],
                   ok |-> TRUE]
             ELSE [closestEncloser |-> <<>>,
                   sourceOfSynthesis |-> <<"*">>,
                   ok |-> TRUE]

\* The for-ok loop of findLocation, s being the current split.
RECURSIVE searchLoop(_, _)
searchLoop(s, z) ==
    IF ~s.ok THEN <<>>
    ELSE LET ceExists == keyMatches(s.closestEncloser, z) \/ keyExists(s.closestEncloser, z)
             ssExists == keyExists(s.sourceOfSynthesis, z)
         IN  IF ceExists
             THEN (IF ssExists THEN s.sourceOfSynthesis ELSE <<>>)
             ELSE searchLoop(splitQuery(s.closestEncloser), z)

\* Mutant: keeps peeling when the encloser exists but has no wildcard.
RECURSIVE searchLoopKeepPeeling(_, _)
searchLoopKeepPeeling(s, z) ==
    IF ~s.ok THEN <<>>
    ELSE IF keyExists(s.sourceOfSynthesis, z) THEN s.sourceOfSynthesis
    ELSE searchLoopKeepPeeling(splitQuery(s.closestEncloser), z)

findLocation_keepPeeling(q, z) ==
    IF q = z.Name THEN q
    ELSE LET r == TrimSuffix(q, Dot \o z.Name)
         IN  IF r \in z.Locations THEN r
             ELSE searchLoopKeepPeeling(splitQuery(r), z)

\* Mutant: the wildcard name is returned without asking whether it is stored.
RECURSIVE searchLoopAnyWildcard(_, _)
searchLoopAnyWildcard(s, z) ==
    IF ~s.ok THEN <<>>
    ELSE IF keyMatches(s.closestEncloser, z) \/ keyExists(s.closestEncloser, z)
         THEN s.sourceOfSynthesis
         ELSE searchLoopAnyWildcard(splitQuery(s.closestEncloser), z)

findLocation_anyWildcard(q, z) ==
    IF q = z.Name THEN q
    ELSE LET r == TrimSuffix(q, Dot \o z.Name)
         IN  IF r \in z.Locations THEN r
             ELSE searchLoopAnyWildcard(splitQuery(r), z)

\* Passes of the for-ok loop of findLocation before it returns.
RECURSIVE searchPasses(_, _)
searchPasses(s, z) ==
    IF ~s.ok THEN 0
    ELSE IF keyMatches(s.closestEncloser, z) \/ keyExists(s.closestEncloser, z)
         THEN 1
         ELSE 1 + searchPasses(splitQuery(s.closestEncloser), z)

\* Mutant: no shortcut for the zone's own name.
findLocation_noApex(q, z) ==
    LET r == TrimSuffix(q, Dot \o z.Name)
    IN  IF r \in z.Locations THEN r
        ELSE searchLoop(splitQuery(r), z)

findLocation(q, z) ==
    IF q = z.Name THEN q
    ELSE LET r == TrimSuffix(q, Dot \o z.Name)
         IN  IF r \in z.Locations THEN r
             ELSE searchLoop(splitQuery(r), z)

\* The hash field get() asks the backend for, given the key it is passed.
getLabel(key, z) == IF key = z.Name THEN Apex ELSE key

\* The zone as loaded for one query, and the query.
LocInit ==
    /\ Locations \in SubsetsUpTo(LocNames, MaxLocs)
    /\ query \in Queries
    /\ location = <<>>
    /\ field = <<>>
    /\ looked = FALSE

LocIdle ==
    /\ Locations = {}
    /\ query = <<>>
    /\ location = <<>>
    /\ field = <<>>
    /\ looked = FALSE

\* One lookup: findLocation, then the field get() would read for its result.
Lookup ==
    /\ ~looked
    /\ location' = findLocation(query, Zone)
    /\ field' = getLabel(location', Zone)
    /\ looked' = TRUE
    /\ UNCHANGED <<Locations, query>>
    /\ UNCHANGED <<ttlVars, txtVars, catVars, getVars, rrVars>>

(***************************************************************************)
(* Zone catalog                                                            *)
(***************************************************************************)
MaxBatch == 2
MaxScans == 3
MaxRefresh == 2

\* strconv.Atoi on a character sequence: an optional sign, then digits.
Digits == <<"0", "1", "2", "3", "4", "5", "6", "7", "8", "9">>
IsDigit(c) == \E d \in 1..10 : Digits[d] = c
DigitVal(c) == (CHOOSE d \in 1..10 : Digits[d] = c) - 1

RECURSIVE DigitsVal(_, _)
DigitsVal(s, acc) ==
    IF s = <<>> THEN acc ELSE DigitsVal(Tail(s), acc * 10 + DigitVal(Head(s)))

Unsigned(s) == IF s # <<>> /\ Head(s) \in {"+", "-"} THEN Tail(s) ELSE s
AtoiOk(s) == Unsigned(s) # <<>> /\ \A i \in 1..Len(Unsigned(s)) : IsDigit(Unsigned(s)[i])
Atoi(s) ==
    IF s # <<>> /\ Head(s) = "-"
    THEN 0 - DigitsVal(Unsigned(s), 0)
    ELSE DigitsVal(Unsigned(s), 0)

\* Zone names that may have a key in the backend.
ZoneNames == {<<"a">>, <<"b">>}
Prefixes == {<<>>, <<"p">>}
Suffixes == {<<>>, <<"s">>}

\* The backend key of a zone.
ZoneKey(zone) == keyPrefix \o zone \o keySuffix

\* Sequences of up to n elements of S.
RECURSIVE SeqsUpTo(_, _)
SeqsUpTo(S, n) ==
    IF n = 0 THEN {<<>>}
    ELSE LET shorter == SeqsUpTo(S, n - 1)
         IN  shorter \cup {Append(q, x) : q \in shorter, x \in S}

NoRepeat(q) == \A i, j \in 1..Len(q) : q[i] = q[j] => i = j

\* One batch of keys a SCAN may return: existing keys, none twice.
Batches == {q \in SeqsUpTo({ZoneKey(zn) : zn \in dbKeys}, MaxBatch) : NoRepeat(q)}

\* The cursors a SCAN reply may carry, as the bytes of element 0.
Cursors == {<<"0">>, <<"1", "7">>, <<"x">>}

\* What conn.Do("SCAN", ...) may give back: an error, or a reply that is
\* either of the expected types (an array of a byte string and key arrays)
\* or is not.
ScanReplies ==
    {[err |-> TRUE, typed |-> TRUE, cursor |-> <<>>, keys |-> <<>>],
     [err |-> FALSE, typed |-> FALSE, cursor |-> <<>>, keys |-> <<>>]}
    \cup {[err |-> FALSE, typed |-> TRUE, cursor |-> c, keys |-> k] :
             c \in Cursors, k \in Batches}

\* decodeScanReply: the unchecked type assertions panic on a reply of another
\* type, a cursor that is no integer is returned as an error.
decodeScanReply(reply) ==
    IF ~reply.typed THEN [panic |-> TRUE, err |-> FALSE, cursor |-> 0, keys |-> <<>>]
    ELSE IF ~AtoiOk(reply.cursor)
         THEN [panic |-> FALSE, err |-> TRUE, cursor |-> 0, keys |-> <<>>]
         ELSE [panic |-> FALSE, err |-> FALSE, cursor |-> Atoi(reply.cursor),
               keys |-> reply.keys]

\* The body of the range loop over scanReply.keys, acc being zones and keysSeen.
addKey(acc, key) ==
    IF key \notin acc.keysSeen
    THEN LET zone == TrimPrefix(TrimPrefix(key, keyPrefix), keySuffix)
         IN  [zones |-> Append(acc.zones, zone), keysSeen |-> acc.keysSeen \cup {zone}]
    ELSE acc

\* Mutant: remembers the key as it was returned, before stripping.
addKey_seenRaw(acc, key) ==
    IF key \notin acc.keysSeen
    THEN LET zone == TrimPrefix(TrimPrefix(key, keyPrefix), keySuffix)
         IN  [zones |-> Append(acc.zones, zone), keysSeen |-> acc.keysSeen \cup {key}]
    ELSE acc

RECURSIVE addKeys(_, _)
addKeys(acc, keys) ==
    IF keys = <<>> THEN acc ELSE addKeys(addKey(acc, Head(keys)), Tail(keys))

\* KeyCount: DBSIZE, or -1 when the command or the connection fails.
KeyCount(ok) == IF ok THEN Cardinality(dbKeys) ELSE 0 - 1

\* No read of redis.Zones yet; a read gives a list or faults.
NotRead == [read |-> FALSE, fault |-> FALSE, list |-> <<>>]

\* The slice a reader gets from the data pointer of arr and the length n: a
\* length beyond the array is a fault.
SliceOf(arr, n) ==
    IF n <= Len(arr) THEN [read |-> TRUE, fault |-> FALSE, list |-> SubSeq(arr, 1, n)]
    ELSE [read |-> TRUE, fault |-> TRUE, list |-> <<>>]

\* What an unsynchronized read of redis.Zones may give while the store
\* redis.Zones = zones is in flight: the slice header is several words, and
\* the reader may get each of them from before or from after the store.
RacyReads(old, new) ==
    {SliceOf(old, Len(old)), SliceOf(new, Len(new)),
     SliceOf(new, Len(old)), SliceOf(old, Len(new))}

\* LoadAllZoneNames has not run.
NotListed == [done |-> FALSE, err |-> FALSE, zones |-> <<>>]

\* What conn.Do("KEYS", pattern) may give back: an error, or every key of the
\* keyspace that matches keyPrefix*keySuffix, in some order.
KeysReplies ==
    {[err |-> TRUE, keys |-> <<>>]}
    \cup {[err |-> FALSE, keys |-> k] :
             k \in {q \in SeqsUpTo({ZoneKey(zn) : zn \in dbKeys}, Cardinality(dbKeys)) :
                       Len(q) = Cardinality(dbKeys) /\ NoRepeat(q)}}

\* LoadAllZoneNames: both affixes are trimmed from every key.
LoadAllZoneNames(reply) ==
    IF reply.err THEN [done |-> TRUE, err |-> TRUE, zones |-> <<>>]
    ELSE [done |-> TRUE, err |-> FALSE,
          zones |-> [i \in 1..Len(reply.keys) |->
                        TrimSuffix(TrimPrefix(reply.keys[i], keyPrefix), keySuffix)]]

CatInit ==
    /\ keyPrefix \in Prefixes
    /\ keySuffix \in Suffixes
    /\ dbKeys \in (SUBSET ZoneNames) \ {{}}
    /\ Zones = <<>>
    /\ LastZoneUpdate = 0
    /\ lastKeyCount = 0
    /\ now = 0
    /\ lzPc = "idle"
    /\ cursor = 0
    /\ zones = <<>>
    /\ keysSeen = {}
    /\ scans = 0
    /\ before = [Zones |-> <<>>, LastZoneUpdate |-> 0, lastKeyCount |-> 0]
    /\ seen = NotRead
    /\ listed = NotListed

CatIdle ==
    /\ keyPrefix = <<>>
    /\ keySuffix = <<>>
    /\ dbKeys = {}
    /\ Zones = <<>>
    /\ LastZoneUpdate = 0
    /\ lastKeyCount = 0
    /\ now = 0
    /\ lzPc = "idle"
    /\ cursor = 0
    /\ zones = <<>>
    /\ keysSeen = {}
    /\ scans = 0
    /\ before = [Zones |-> <<>>, LastZoneUpdate |-> 0, lastKeyCount |-> 0]
    /\ seen = NotRead
    /\ listed = NotListed

\* LoadZones is entered (by the refresh timer): Pool.Get, then the locals.
LoadZonesBegin(connected) ==
    /\ lzPc \in {"idle", "done", "failed"}
    /\ now < MaxRefresh
    /\ now' = now + 1
    /\ before' = [Zones |-> Zones, LastZoneUpdate |-> LastZoneUpdate,
                  lastKeyCount |-> lastKeyCount]
    /\ cursor' = 0
    /\ zones' = <<>>
    /\ keysSeen' = {}
    /\ scans' = 0
    /\ lzPc' = IF connected THEN "scan" ELSE "failed"
    /\ seen' = NotRead
    /\ listed' = NotListed
    /\ UNCHANGED <<catConfig, catFields>>
    /\ UNCHANGED <<ttlVars, txtVars, locVars, getVars, rrVars>>

\* One turn of the for loop: a SCAN, its decoding, the keys it returned.
LoadZonesScan(reply) ==
    /\ lzPc = "scan"
    /\ scans < MaxScans
    /\ scans' = scans + 1
    /\ IF reply.err
       THEN /\ lzPc' = "failed"
            /\ UNCHANGED <<cursor, zones, keysSeen>>
       ELSE LET scanReply == decodeScanReply(reply)
                acc == addKeys([zones |-> zones, keysSeen |-> keysSeen], scanReply.keys)
            IN  IF scanReply.panic
                THEN /\ lzPc' = "panicked"
                     /\ UNCHANGED <<cursor, zones, keysSeen>>
                ELSE IF scanReply.err
                THEN /\ lzPc' = "failed"
                     /\ UNCHANGED <<cursor, zones, keysSeen>>
                ELSE /\ cursor' = scanReply.cursor
                     /\ zones' = acc.zones
                     /\ keysSeen' = acc.keysSeen
                     /\ lzPc' = IF scanReply.cursor = 0 THEN "count" ELSE "scan"
    /\ UNCHANGED <<catConfig, catFields, now, before, catReads>>
    /\ UNCHANGED <<ttlVars, txtVars, locVars, getVars, rrVars>>

\* After the loop: the timestamp and the key count (a DBSIZE round trip).
LoadZonesEnd(countOk) ==
    /\ lzPc = "count"
    /\ LastZoneUpdate' = now
    /\ lastKeyCount' = KeyCount(countOk)
    /\ lzPc' = "store"
    /\ UNCHANGED <<catConfig, Zones, catLocals, now, before, catReads>>
    /\ UNCHANGED <<ttlVars, txtVars, locVars, getVars, rrVars>>

\* redis.Zones = zones: the new list is published.
LoadZonesStore ==
    /\ lzPc = "store"
    /\ Zones' = zones
    /\ lzPc' = "done"
    /\ UNCHANGED <<catConfig, LastZoneUpdate, lastKeyCount, catLocals, now, before,
                   catReads>>
    /\ UNCHANGED <<ttlVars, txtVars, locVars, getVars, rrVars>>

\* A query reads redis.Zones while the refresh runs; no lock is taken on
\* either side, so a read that meets the store may be torn.
ReadZones(obs) ==
    /\ lzPc \in {"scan", "count", "store"}
    /\ ~seen.read
    /\ obs \in (IF lzPc = "store" THEN RacyReads(Zones, zones)
                 ELSE {SliceOf(Zones, Len(Zones))})
    /\ seen' = obs
    /\ UNCHANGED <<catConfig, catFields, catLocals, now, lzPc, before, listed>>
    /\ UNCHANGED <<ttlVars, txtVars, locVars, getVars, rrVars>>

\* LoadAllZoneNames is called on the keyspace the refresh has just scanned:
\* KEYS, then the trimming of its reply.
ListZones(reply) ==
    /\ lzPc = "done"
    /\ ~listed.done
    /\ listed' = LoadAllZoneNames(reply)
    /\ UNCHANGED <<catConfig, catFields, catLocals, now, lzPc, before, seen>>
    /\ UNCHANGED <<ttlVars, txtVars, locVars, getVars, rrVars>>

(***************************************************************************)
(* Aggregated layout: get and the A synthesizer                            *)
(***************************************************************************)
MaxA == 1

\* A stored A entry: an address that parsed or did not, and a ttl.
AEntries == [Ip : {"nil", "192.0.2.1"}, Ttl : {0, MaxTtl}]

\* What a hash field may hold: nothing, text that is no JSON, or a Record.
Absent == [present |-> FALSE, json |-> FALSE, A |-> <<>>]
StoredValues ==
    {Absent, [present |-> TRUE, json |-> FALSE, A |-> <<>>]}
    \cup {[present |-> TRUE, json |-> TRUE, A |-> as] : as \in SeqsUpTo(AEntries, MaxA)}

\* The fields of the zone's hash and the keys get is called with.
HashFields == {Apex, <<"a">>}
GetKeys == {ZoneName, <<"a">>, <<>>}

\* A nil *Record, and the Record a well-formed value decodes to.
NilRecord == [isNil |-> TRUE, A |-> <<>>]
Decoded(val) ==
    [f \in (DOMAIN val \ {"present", "json"}) \cup {"isNil"} |->
        IF f = "isNil" THEN FALSE ELSE val[f]]

HGET(h, label) == IF label \in DOMAIN h THEN h[label] ELSE Absent

\* get with the backend's state spelled out: every failure returns nil.
getWith(conn, fails, h, key, z) ==
    IF ~conn THEN NilRecord
    ELSE LET label == getLabel(key, z)
             reply == HGET(h, label)
         IN  IF fails THEN NilRecord
             ELSE IF ~reply.present THEN NilRecord
             ELSE IF ~reply.json THEN NilRecord
             ELSE Decoded(reply)

get(key, z) == getWith(poolConn, hgetFails, hash, key, z)

\* dns.Fqdn
Fqdn(name) == IF HasSuffix(name, Dot) THEN name ELSE name \o Dot

\* The loop of A() over record.A, from entry i on.
RECURSIVE aLoop(_, _, _)
aLoop(name, as, i) ==
    IF i > Len(as) THEN <<>>
    ELSE IF as[i].Ip = "nil" THEN aLoop(name, as, i + 1)
    ELSE <<[Name |-> Fqdn(name), Rrtype |-> "A", Class |-> "IN",
            Ttl |-> minTtl(as[i].Ttl), A |-> as[i].Ip]>> \o aLoop(name, as, i + 1)

A(name, z, rec) == IF rec.isNil THEN <<>> ELSE aLoop(name, rec.A, 1)

\* The name a key answers for.
NameOf(key) == IF key = ZoneName THEN ZoneName ELSE key \o Dot \o ZoneName

\* No synthesizer has run.
NoSynth == [type |-> "", key |-> <<>>, isNil |-> TRUE, answers |-> <<>>, extras |-> <<>>]

GetInit ==
    /\ hash \in [HashFields -> StoredValues]
    /\ poolConn \in BOOLEAN
    /\ hgetFails \in BOOLEAN
    /\ getKey \in GetKeys
    /\ record = NilRecord
    /\ answers = <<>>
    /\ getDone = FALSE
    /\ synth = NoSynth
    /\ records = <<>>
    /\ axfrDone = FALSE

GetIdle ==
    /\ hash = [f \in HashFields |-> Absent]
    /\ poolConn = TRUE
    /\ hgetFails = FALSE
    /\ getKey = <<>>
    /\ record = NilRecord
    /\ answers = <<>>
    /\ getDone = FALSE
    /\ synth = NoSynth
    /\ records = <<>>
    /\ axfrDone = FALSE

\* The configured ceiling, with no minTtl application of its own on record.
TtlConfig ==
    /\ Ttl \in {0, MaxTtl}
    /\ recTtl = 0
    /\ effTtl = 0
    /\ ttlApplied = FALSE

\* One type-A answer: get for the resolved key, then A() on its record.
GetA ==
    /\ ~getDone
    /\ record' = get(getKey, Zone)
    /\ answers' = A(NameOf(getKey), Zone, record')
    /\ getDone' = TRUE
    /\ UNCHANGED <<hash, poolConn, hgetFails, getKey, synth, records, axfrDone>>
    /\ UNCHANGED <<ttlVars, txtVars, locVars, catVars, rrVars>>

(***************************************************************************)
(* Aggregated layout: the synthesizers and AXFR                            *)
(***************************************************************************)
\* The host the stored NS, MX, SRV and CNAME entries name: location "a".
GlueHost == <<"a", ".", "z", ".">>

\* A stored Record with one entry of every type, all with the same ttl; with
\* ok false every entry lacks its required field and the SOA has no Ns.
FullRecord(ttl, ok) ==
    LET h == IF ok THEN GlueHost ELSE <<>>
    IN  [present |-> TRUE, json |-> TRUE,
         A |-> <<[Ip |-> IF ok THEN "192.0.2.1" ELSE "nil", Ttl |-> ttl]>>,
         AAAA |-> <<[Ip |-> IF ok THEN "2001:db8::1" ELSE "nil", Ttl |-> ttl]>>,
         CNAME |-> <<[Host |-> h, Ttl |-> ttl]>>,
         TXT |-> <<[Text |-> IF ok THEN <<"t">> ELSE <<>>, Ttl |-> ttl]>>,
         NS |-> <<[Host |-> h, Ttl |-> ttl]>>,
         MX |-> <<[Host |-> h, Ttl |-> ttl]>>,
         SRV |-> <<[Target |-> h, Ttl |-> ttl]>>,
         CAA |-> <<[Tag |-> IF ok THEN "issue" ELSE "", Value |-> "ca"]>>,
         SOA |-> [Ns |-> h, Ttl |-> ttl]]

\* A stored Record holding nothing but one address.
HostRecord(ttl) ==
    [FullRecord(ttl, TRUE) EXCEPT !.AAAA = <<>>, !.CNAME = <<>>, !.TXT = <<>>,
                                  !.NS = <<>>, !.MX = <<>>, !.SRV = <<>>, !.CAA = <<>>,
                                  !.SOA = [Ns |-> <<>>, Ttl |-> 0]]

\* What a hash field may hold when whole Records are stored.
RecordValues ==
    {Absent, [present |-> TRUE, json |-> FALSE, A |-> <<>>],
     FullRecord(0, TRUE), FullRecord(MaxTtl, TRUE), FullRecord(MaxTtl, FALSE),
     HostRecord(0), HostRecord(MaxTtl)}

\* load(): the zone with the fields HKEYS lists as its locations.
load(h) == [Name |-> ZoneName, Locations |-> {f \in DOMAIN h : h[f].present}]

\* A resource record with its header.
Hdr(name, rrtype, ttl, data) ==
    [Name |-> name, Rrtype |-> rrtype, Class |-> "IN", Ttl |-> ttl, Data |-> data]

\* The loop shared by the list synthesizers: one RR per entry whose field f
\* is not the zero value, with the clamped ttl.
RECURSIVE entryLoop(_, _, _, _, _, _)
entryLoop(name, es, i, rrtype, f, zero) ==
    IF i > Len(es) THEN <<>>
    ELSE IF es[i][f] = zero THEN entryLoop(name, es, i + 1, rrtype, f, zero)
    ELSE <<Hdr(Fqdn(name), rrtype, minTtl(es[i].Ttl),
               IF rrtype = "CNAME" THEN Fqdn(es[i][f])
               ELSE IF rrtype = "TXT" THEN split255(es[i][f])
               ELSE es[i][f])>>
         \o entryLoop(name, es, i + 1, rrtype, f, zero)

AAAA(name, z, rec) ==
    IF rec.isNil THEN <<>> ELSE entryLoop(name, rec.AAAA, 1, "AAAA", "Ip", "nil")

CNAME(name, z, rec) ==
    IF rec.isNil THEN <<>> ELSE entryLoop(name, rec.CNAME, 1, "CNAME", "Host", <<>>)

TXTrrs(name, z, rec) ==
    IF rec.isNil THEN <<>> ELSE entryLoop(name, rec.TXT, 1, "TXT", "Text", <<>>)

\* The A() of the same record in the header shape of the other types.
Arrs(name, z, rec) ==
    IF rec.isNil THEN <<>> ELSE entryLoop(name, rec.A, 1, "A", "Ip", "nil")

hosts(name, z) ==
    LET loc == findLocation(name, z)
    IN  IF loc = <<>> THEN <<>>
        ELSE LET rec == get(loc, z)
             IN  Arrs(name, z, rec) \o AAAA(name, z, rec) \o CNAME(name, z, rec)

\* The extras of NS, MX and SRV: hosts() of every entry that is not skipped.
RECURSIVE glueLoop(_, _, _, _)
glueLoop(es, i, f, z) ==
    IF i > Len(es) THEN <<>>
    ELSE IF es[i][f] = <<>> THEN glueLoop(es, i + 1, f, z)
    ELSE hosts(es[i][f], z) \o glueLoop(es, i + 1, f, z)

NoRRs == [answers |-> <<>>, extras |-> <<>>]

NS(name, z, rec) ==
    IF rec.isNil THEN NoRRs
    ELSE [answers |-> entryLoop(name, rec.NS, 1, "NS", "Host", <<>>),
          extras |-> glueLoop(rec.NS, 1, "Host", z)]

MX(name, z, rec) ==
    IF rec.isNil THEN NoRRs
    ELSE [answers |-> entryLoop(name, rec.MX, 1, "MX", "Host", <<>>),
          extras |-> glueLoop(rec.MX, 1, "Host", z)]

SRV(name, z, rec) ==
    IF rec.isNil THEN NoRRs
    ELSE [answers |-> entryLoop(name, rec.SRV, 1, "SRV", "Target", <<>>),
          extras |-> glueLoop(rec.SRV, 1, "Target", z)]

SOA(name, z, rec) ==
    IF rec.isNil THEN <<>>
    ELSE IF rec.SOA.Ns = <<>>
    THEN <<Hdr(Fqdn(name), "SOA", Ttl, <<"n", "s", "1", ".">> \o name)>>
    ELSE <<Hdr(Fqdn(z.Name), "SOA", minTtl(rec.SOA.Ttl), rec.SOA.Ns)>>

\* The loop of CAA(): the header is built without a Ttl, which leaves it 0.
RECURSIVE caaLoop(_, _, _)
caaLoop(name, es, i) ==
    IF i > Len(es) THEN <<>>
    ELSE IF es[i].Value = "" \/ es[i].Tag = "" THEN caaLoop(name, es, i + 1)
    ELSE <<Hdr(Fqdn(name), "CAA", 0, <<es[i].Tag, es[i].Value>>)>>
         \o caaLoop(name, es, i + 1)

CAA(name, z, rec) == IF rec.isNil THEN <<>> ELSE caaLoop(name, rec.CAA, 1)

\* The body of AXFR's loop for one key that is not "@".
AxfrKey(key, z) ==
    LET fqdnKey == Fqdn(key) \o z.Name
        rec == get(findLocation(fqdnKey, z), z)
        mx == MX(fqdnKey, z, rec)
        srv == SRV(fqdnKey, z, rec)
    IN  [answers |-> Arrs(fqdnKey, z, rec) \o AAAA(fqdnKey, z, rec)
                        \o CNAME(fqdnKey, z, rec) \o mx.answers \o srv.answers
                        \o TXTrrs(fqdnKey, z, rec),
         extras |-> mx.extras \o srv.extras]

\* AXFR's loop over z.Locations, visited in the given order, from key i on.
RECURSIVE axfrLoop(_, _, _, _, _, _)
axfrLoop(z, order, i, soa, as, xs) ==
    IF i > Len(order) THEN soa \o as \o xs \o soa
    ELSE IF order[i] = Apex
    THEN axfrLoop(z, order, i + 1, SOA(z.Name, z, get(findLocation(z.Name, z), z)), as, xs)
    ELSE LET k == AxfrKey(order[i], z)
         IN  axfrLoop(z, order, i + 1, soa, as \o k.answers, xs \o k.extras)

AXFR(z, order) == axfrLoop(z, order, 1, <<>>, <<>>, <<>>)

\* The orders in which a range over the map z.Locations may visit its keys.
Orders(S) == {o \in SeqsUpTo(S, Cardinality(S)) : Len(o) = Cardinality(S) /\ NoRepeat(o)}

SynTypes == {"A", "AAAA", "CNAME", "TXT", "NS", "MX", "SRV", "SOA", "CAA"}

\* The synthesizer of type t.
Synthesizer(t, name, z, rec) ==
    CASE t = "A" -> [answers |-> Arrs(name, z, rec), extras |-> <<>>]
      [] t = "AAAA" -> [answers |-> AAAA(name, z, rec), extras |-> <<>>]
      [] t = "CNAME" -> [answers |-> CNAME(name, z, rec), extras |-> <<>>]
      [] t = "TXT" -> [answers |-> TXTrrs(name, z, rec), extras |-> <<>>]
      [] t = "NS" -> NS(name, z, rec)
      [] t = "MX" -> MX(name, z, rec)
      [] t = "SRV" -> SRV(name, z, rec)
      [] t = "SOA" -> [answers |-> SOA(name, z, rec), extras |-> <<>>]
      [] OTHER -> [answers |-> CAA(name, z, rec), extras |-> <<>>]

\* The hash as stored, the pool, the ceiling; nothing synthesized yet.
AxfrInit ==
    /\ hash \in [HashFields -> RecordValues]
    /\ poolConn \in BOOLEAN
    /\ hgetFails = FALSE
    /\ getKey = <<>>
    /\ record = NilRecord
    /\ answers = <<>>
    /\ getDone = FALSE
    /\ synth = NoSynth
    /\ records = <<>>
    /\ axfrDone = FALSE

\* One query of type t for a location of the zone: its record is fetched and
\* handed to the synthesizer of the type.
Synthesize(t, key) ==
    /\ synth = NoSynth
    /\ key \in load(hash).Locations
    /\ LET z == load(hash)
           name == IF key = Apex THEN z.Name ELSE Fqdn(key) \o z.Name
           rec == get(findLocation(name, z), z)
           out == Synthesizer(t, name, z, rec)
       IN  synth' = [type |-> t, key |-> key, isNil |-> rec.isNil,
                     answers |-> out.answers, extras |-> out.extras]
    /\ UNCHANGED <<hash, poolConn, hgetFails, getKey, record, answers, getDone,
                   records, axfrDone>>
    /\ UNCHANGED <<ttlVars, txtVars, locVars, catVars, rrVars>>

\* One zone transfer; the range over z.Locations visits the keys in any order.
Axfr(order) ==
    /\ ~axfrDone
    /\ records' = AXFR(load(hash), order)
    /\ axfrDone' = TRUE
    /\ UNCHANGED <<hash, poolConn, hgetFails, getKey, record, answers, getDone, synth>>
    /\ UNCHANGED <<ttlVars, txtVars, locVars, catVars, rrVars>>

(***************************************************************************)
(* Per-type layout: row decoding                                           *)
(***************************************************************************)
\* The TTL command's answer for a key that does not exist.
NoKey == 0 - 2

\* uint32(x).  Every value converted here is a row TTL or a remaining lifetime
\* of a key set with EX, both within 0 .. 2^31 - 1, where the conversion
\* keeps the value (2^32 itself is beyond TLC's integers).
UInt32(x) == x

\* strings.Fields: the maximal runs of non-space characters.
RECURSIVE fieldsLoop(_, _, _)
fieldsLoop(s, cur, acc) ==
    IF s = <<>> THEN (IF cur = <<>> THEN acc ELSE Append(acc, cur))
    ELSE IF Head(s) = " "
         THEN fieldsLoop(Tail(s), <<>>, IF cur = <<>> THEN acc ELSE Append(acc, cur))
         ELSE fieldsLoop(Tail(s), Append(cur, Head(s)), acc)

Fields(s) == fieldsLoop(s, <<>>, <<>>)

\* A row text from its fields, separated by single spaces.
RECURSIVE Row(_)
Row(fs) ==
    IF fs = <<>> THEN <<>>
    ELSE IF Len(fs) = 1 THEN fs[1]
    ELSE fs[1] \o <<" ">> \o Row(Tail(fs))

IsFqdn(name) == HasSuffix(name, Dot)

\* fields[k:] of Go, 0-based.
From(fields, k) == SubSeq(fields, k + 1, Len(fields))

TypeA == <<"A">>
TypeNS == <<"N", "S">>
TypeSOA == <<"S", "O", "A">>
TypeMX == <<"M", "X">>
ClassIN == <<"I", "N">>
HostH == <<"h", ".">>

\* fmt.Sprintf("%s/%s", recordType, recordName); the :ttl sibling is kept
\* under the same name in ttlKeys.
KeyName(recordType, recordName) == recordType \o <<"/">> \o recordName

\* redis.Key
Key(name) == keyPrefix \o name

\* The RRsets asked for, and the backend keys of their rows.
RRsets ==
    {[type |-> TypeA, name |-> HostH], [type |-> TypeNS, name |-> ZoneName],
     [type |-> TypeSOA, name |-> ZoneName], [type |-> TypeMX, name |-> ZoneName]}
RowKeys == {Key(KeyName(rr.type, rr.name)) : rr \in RRsets}

\* GET and TTL as the transaction reads them.
GET(key) == IF key \in DOMAIN rows THEN rows[key] ELSE <<>>
TTL(ts, key) == IF key \in DOMAIN ts THEN ts[key] ELSE NoKey

\* A result of decoding or loading: records, error, panic, the :ttl keys as
\* the nested lookups left them, and the SET commands those issued.
Result(as, xs, e, pn, ts, st) ==
    [answers |-> as, extras |-> xs, err |-> e, panic |-> pn, ts |-> ts, sets |-> st]

RR(name, rrtype, ttl, data) == [Name |-> name, Rrtype |-> rrtype, Ttl |-> ttl, Data |-> data]

parseA(ips, recordName, ttl) ==
    [i \in 1..Len(ips) |-> RR(recordName, "A", ttl, ips[i])]

\* The else branch of LoadZoneRecords: every answer gets the remaining TTL.
overwriteTtl(as, remainingTtl) ==
    [i \in 1..Len(as) |-> [as[i] EXCEPT !.Ttl = UInt32(remainingTtl)]]

\* Mutant: sets the :ttl key on every synthesis.
decay_resetsEachQuery(as, remainingTtl) ==
    [set |-> TRUE, ex |-> UInt32(as[1].Ttl), answers |-> as]

\* "Support for monotonically decreasing TTLs": whether the :ttl key is to be
\* SET and with which expiry, and the answers to give.
decay(as, remainingTtl) ==
    IF remainingTtl = NoKey
    THEN [set |-> TRUE, ex |-> UInt32(as[1].Ttl), answers |-> as]
    ELSE [set |-> FALSE, ex |-> 0, answers |-> overwriteTtl(as, remainingTtl)]

\* SET key value EX seconds: the backend refuses an expiry of 0.
SetAccepted(ex) == ex > 0

RECURSIVE parseRecordValuesFromString(_, _, _, _)
RECURSIVE LoadZoneRecordsNested(_, _, _)

getAdditionalRecords(ts, recordName) ==
    LET r == LoadZoneRecordsNested(ts, TypeA, recordName)
    IN  [r EXCEPT !.err = r.err \/ Len(r.extras) > 0]

\* The loop of parseNS from host i on.
RECURSIVE parseNSLoop(_, _, _, _, _, _, _, _)
parseNSLoop(ts, hostNames, i, zoneName, ttl, as, xs, st) ==
    IF i > Len(hostNames) THEN Result(as, xs, FALSE, FALSE, ts, st)
    ELSE IF ~IsFqdn(hostNames[i]) THEN Result(as, xs, TRUE, FALSE, ts, st)
    ELSE LET as2 == Append(as, RR(zoneName, "NS", ttl, hostNames[i]))
             add == getAdditionalRecords(ts, hostNames[i])
         IN  IF add.panic \/ add.err
             THEN Result(as2, xs, TRUE, add.panic, add.ts, st \o add.sets)
             ELSE parseNSLoop(add.ts, hostNames, i + 1, zoneName, ttl, as2,
                              xs \o add.answers, st \o add.sets)

parseNS(ts, hostNames, zoneName, ttl) ==
    parseNSLoop(ts, hostNames, 1, zoneName, ttl, <<>>, <<>>, <<>>)

\* The five numeric fields of parseSOA, fields[k] for k = 2..6: indexing past
\* the end panics, a field that is no integer is an error.
RECURSIVE soaNumbers(_, _)
soaNumbers(fields, k) ==
    IF k > 6 THEN "ok"
    ELSE IF Len(fields) <= k THEN "panic"
    ELSE IF ~AtoiOk(fields[k + 1]) THEN "err"
    ELSE soaNumbers(fields, k + 1)

parseSOA(ts, fields, zoneName, ttl) ==
    IF Len(fields) < 2 THEN Result(<<>>, <<>>, FALSE, TRUE, ts, <<>>)
    ELSE LET nums == soaNumbers(fields, 2)
         IN  IF nums = "panic" THEN Result(<<>>, <<>>, FALSE, TRUE, ts, <<>>)
             ELSE IF nums = "err" THEN Result(<<>>, <<>>, TRUE, FALSE, ts, <<>>)
             ELSE LET add == getAdditionalRecords(ts, fields[1])
                  IN  IF add.panic \/ add.err
                      THEN Result(<<>>, <<>>, TRUE, add.panic, add.ts, add.sets)
                      ELSE Result(<<RR(zoneName, "SOA", ttl, From(fields, 0))>>,
                                  add.answers, FALSE, FALSE, add.ts, add.sets)

\* Mutant: the type written in the row is not compared with the one asked for.
parseRecordValuesFromString_anyType(ts, recordType, recordName, rData) ==
    LET fields == Fields(rData)
    IN  IF Len(fields) < 4 THEN Result(<<>>, <<>>, TRUE, FALSE, ts, <<>>)
        ELSE IF ~AtoiOk(fields[1]) THEN Result(<<>>, <<>>, TRUE, FALSE, ts, <<>>)
        ELSE LET ttl == UInt32(Atoi(fields[1]))
             IN  CASE recordType = TypeA ->
                        Result(parseA(From(fields, 3), recordName, ttl), <<>>,
                               FALSE, FALSE, ts, <<>>)
                   [] recordType = TypeNS -> parseNS(ts, From(fields, 3), recordName, ttl)
                   [] recordType = TypeSOA -> parseSOA(ts, From(fields, 3), recordName, ttl)
                   [] OTHER -> Result(<<>>, <<>>, TRUE, FALSE, ts, <<>>)

parseRecordValuesFromString(ts, recordType, recordName, rData) ==
    LET fields == Fields(rData)
    IN  IF Len(fields) < 4 THEN Result(<<>>, <<>>, TRUE, FALSE, ts, <<>>)
        ELSE IF recordType # fields[3] THEN Result(<<>>, <<>>, TRUE, FALSE, ts, <<>>)
        ELSE IF ~AtoiOk(fields[1]) THEN Result(<<>>, <<>>, TRUE, FALSE, ts, <<>>)
        ELSE LET ttl == UInt32(Atoi(fields[1]))
             IN  CASE recordType = TypeA ->
                        Result(parseA(From(fields, 3), recordName, ttl), <<>>,
                               FALSE, FALSE, ts, <<>>)
                   [] recordType = TypeNS -> parseNS(ts, From(fields, 3), recordName, ttl)
                   [] recordType = TypeSOA -> parseSOA(ts, From(fields, 3), recordName, ttl)
                   [] OTHER -> Result(<<>>, <<>>, TRUE, FALSE, ts, <<>>)

\* A whole LoadZoneRecords call made from within a decode (a glue lookup),
\* taken as one step on the :ttl keys ts.
LoadZoneRecordsNested(ts, recordType, recordName) ==
    LET key == Key(KeyName(recordType, recordName))
        rData == GET(key)
        remainingTtl == TTL(ts, key)
    IN  IF rData = <<>> THEN Result(<<>>, <<>>, TRUE, FALSE, ts, <<>>)
        ELSE LET p == parseRecordValuesFromString(ts, recordType, recordName, rData)
             IN  IF p.panic \/ p.err THEN p
                 ELSE LET d == decay(p.answers, remainingTtl)
                          cmd == [key |-> key, ex |-> d.ex]
                      IN  IF ~d.set
                          THEN Result(d.answers, p.extras, FALSE, FALSE, p.ts, p.sets)
                          ELSE IF SetAccepted(d.ex)
                          THEN Result(d.answers, p.extras, FALSE, FALSE,
                                      [p.ts EXCEPT ![key] = d.ex], Append(p.sets, cmd))
                          ELSE Result(d.answers, p.extras, TRUE, FALSE,
                                      p.ts, Append(p.sets, cmd))

(***************************************************************************)
(* Per-type layout: LoadZoneRecords against the backend                    *)
(***************************************************************************)
NumCallers == 2
MaxCalls == 4

Callers == 1..NumCallers

\* The rows the backend may hold for each RRset ("" being no row).
RowPool(rr) ==
    CASE rr.type = TypeA ->
            {<<>>,
             Row(<<<<"3">>, ClassIN, TypeA, <<"1">>>>),
             Row(<<<<"2">>, ClassIN, TypeA, <<"1">>, <<"2">>>>),
             Row(<<<<"0">>, ClassIN, TypeA, <<"1">>>>),
             Row(<<<<"x">>, ClassIN, TypeA, <<"1">>>>),
             Row(<<<<"3">>, ClassIN, TypeA>>),
             Row(<<<<"3">>, ClassIN, TypeNS, <<"1">>>>)}
      [] rr.type = TypeNS ->
            {Row(<<<<"2">>, ClassIN, TypeNS, HostH>>),
             Row(<<<<"2">>, ClassIN, TypeNS, <<"h">>>>)}
      [] rr.type = TypeSOA ->
            {Row(<<<<"2">>, ClassIN, TypeSOA, HostH, <<"m">>, <<"1">>, <<"1">>,
                   <<"1">>, <<"1">>, <<"1">>>>),
             Row(<<<<"2">>, ClassIN, TypeSOA, HostH, <<"m">>, <<"1">>, <<"1">>,
                   <<"1">>, <<"1">>>>),
             Row(<<<<"2">>, ClassIN, TypeSOA, HostH, <<"m">>, <<"1">>, <<"1">>,
                   <<"1">>, <<"1">>, <<"1">>, <<"1">>>>)}
      [] OTHER ->
            {Row(<<<<"2">>, ClassIN, TypeMX, HostH>>)}

RowOf(rr) == Key(KeyName(rr.type, rr.name))

NoCall ==
    [pc |-> "idle", req |-> [type |-> <<>>, name |-> <<>>], rData |-> <<>>,
     rem |-> NoKey, answers |-> <<>>, extras |-> <<>>, ex |-> 0]

NoLast ==
    [done |-> FALSE, req |-> [type |-> <<>>, name |-> <<>>], rData |-> <<>>, rem |-> NoKey,
     decoded |-> FALSE, err |-> FALSE, panic |-> FALSE, answers |-> <<>>,
     extras |-> <<>>, set |-> <<>>]

\* What a finished call hands back, and the SET it sent for its own :ttl key.
Finished(rr, rData, rem, decoded, e, pn, as, xs, st) ==
    [done |-> TRUE, req |-> rr, rData |-> rData, rem |-> rem, decoded |-> decoded,
     err |-> e, panic |-> pn, answers |-> as, extras |-> xs, set |-> st]

\* The last two remaining lifetimes reported, with ttl added.
Reported(w, ttl) == IF Len(w) < 2 THEN Append(w, ttl) ELSE <<w[2], ttl>>

Tracked == [type |-> TypeA, name |-> HostH]

\* The A rows a glue lookup of h. may find.
GluePool(rr) ==
    IF rr.type \in {TypeNS, TypeSOA}
    THEN {<<>>,
          Row(<<<<"3">>, ClassIN, TypeA, <<"1">>>>),
          Row(<<<<"0">>, ClassIN, TypeA, <<"1">>>>)}
    ELSE {<<>>}

\* One RRset is asked for; the backend holds its row and the glue row.
RrInit ==
    /\ target \in RRsets
    /\ rows \in {[k \in RowKeys |->
                     IF k = RowOf(target) THEN r
                     ELSE IF k = RowOf(Tracked) THEN g
                     ELSE <<>>] : r \in RowPool(target), g \in GluePool(target)}
    /\ ttlKeys = [k \in RowKeys |-> NoKey]
    /\ calls = 0
    /\ pend = [c \in Callers |-> NoCall]
    /\ lastCall = NoLast
    /\ decayed = <<>>

RrIdle ==
    /\ rows = <<>>
    /\ ttlKeys = <<>>
    /\ target = [type |-> <<>>, name |-> <<>>]
    /\ calls = 0
    /\ pend = <<>>
    /\ lastCall = NoLast
    /\ decayed = <<>>

\* The outcome of a call once its row is decoded (p) with the TTL read
\* before (rem): finished, or waiting to SET its :ttl key.
AfterDecode(c, rr, rData, rem, p) ==
    IF p.panic \/ p.err
    THEN /\ lastCall' = Finished(rr, rData, rem, FALSE, TRUE, p.panic,
                                 p.answers, p.extras, <<>>)
         /\ pend' = [pend EXCEPT ![c] = NoCall]
         /\ UNCHANGED decayed
    ELSE LET d == decay(p.answers, rem)
         IN  IF d.set
             THEN /\ pend' = [pend EXCEPT ![c] =
                                 [pc |-> "set", req |-> rr, rData |-> rData, rem |-> rem,
                                  answers |-> d.answers, extras |-> p.extras, ex |-> d.ex]]
                  /\ UNCHANGED <<lastCall, decayed>>
             ELSE /\ lastCall' = Finished(rr, rData, rem, TRUE, FALSE, FALSE,
                                          d.answers, p.extras, <<>>)
                  /\ pend' = [pend EXCEPT ![c] = NoCall]
                  /\ decayed' = IF rr = Tracked
                                THEN Reported(decayed, d.answers[1].Ttl)
                                ELSE decayed

\* A call begins: MULTI, GET, TTL, EXEC and what follows it locally.  A row
\* of a type that needs no glue is decoded here; the others go on to Glue.
Exec(c) ==
    /\ pend[c].pc = "idle"
    /\ calls < MaxCalls
    /\ calls' = calls + 1
    /\ LET rr == target
           rData == GET(RowOf(rr))
           rem == TTL(ttlKeys, RowOf(rr))
       IN  IF rData = <<>>
           THEN /\ lastCall' = Finished(rr, rData, rem, FALSE, TRUE, FALSE,
                                        <<>>, <<>>, <<>>)
                /\ UNCHANGED <<pend, decayed>>
           ELSE IF rr.type \in {TypeNS, TypeSOA}
           THEN /\ pend' = [pend EXCEPT ![c] =
                               [pc |-> "glue", req |-> rr, rData |-> rData, rem |-> rem,
                                answers |-> <<>>, extras |-> <<>>, ex |-> 0]]
                /\ UNCHANGED <<lastCall, decayed>>
           ELSE AfterDecode(c, rr, rData, rem,
                            parseRecordValuesFromString(ttlKeys, rr.type, rr.name, rData))
    /\ UNCHANGED <<rows, ttlKeys, target>>
    /\ UNCHANGED <<ttlVars, txtVars, locVars, catVars, getVars>>

\* The row of an NS or SOA call is decoded; its glue lookups reach the backend.
Glue(c) ==
    /\ pend[c].pc = "glue"
    /\ UNCHANGED <<rows, target, calls>>
    /\ LET p == parseRecordValuesFromString(ttlKeys, pend[c].req.type, pend[c].req.name,
                                            pend[c].rData)
       IN  /\ ttlKeys' = p.ts
           /\ AfterDecode(c, pend[c].req, pend[c].rData, pend[c].rem, p)
    /\ UNCHANGED <<ttlVars, txtVars, locVars, catVars, getVars>>

\* The call SETs its :ttl key; the command may fail.
SetTtl(c, ok) ==
    /\ pend[c].pc = "set"
    /\ LET key == RowOf(pend[c].req)
           accepted == ok /\ SetAccepted(pend[c].ex)
       IN  /\ ttlKeys' = IF accepted THEN [ttlKeys EXCEPT ![key] = pend[c].ex] ELSE ttlKeys
           /\ lastCall' = Finished(pend[c].req, pend[c].rData, pend[c].rem, TRUE,
                                   ~accepted, FALSE, pend[c].answers, pend[c].extras,
                                   <<[key |-> key, ex |-> pend[c].ex]>>)
    /\ pend' = [pend EXCEPT ![c] = NoCall]
    /\ UNCHANGED <<rows, target, calls, decayed>>
    /\ UNCHANGED <<ttlVars, txtVars, locVars, catVars, getVars>>

\* A second passes: every :ttl key loses one, and is gone once none is left.
Tick ==
    /\ \E k \in DOMAIN ttlKeys : ttlKeys[k] # NoKey
    /\ ttlKeys' = [k \in DOMAIN ttlKeys |->
                      IF ttlKeys[k] = NoKey \/ ttlKeys[k] <= 1 THEN NoKey
                      ELSE ttlKeys[k] - 1]
    /\ decayed' = IF ttlKeys'[RowOf(Tracked)] = NoKey THEN <<>> ELSE decayed
    /\ UNCHANGED <<rows, target, calls, pend, lastCall>>
    /\ UNCHANGED <<ttlVars, txtVars, locVars, catVars, getVars>>

(***************************************************************************)
(* Specifications                                                          *)
(***************************************************************************)
InitTtl == TtlInit /\ TxtIdle /\ LocIdle /\ CatIdle /\ GetIdle /\ RrIdle
NextTtl == MinTtl
SpecTtl == InitTtl /\ [][NextTtl]_vars

InitTxt == TxtInit /\ TtlIdle /\ LocIdle /\ CatIdle /\ GetIdle /\ RrIdle
NextTxt == TXT
SpecTxt == InitTxt /\ [][NextTxt]_vars

InitLoc == LocInit /\ TtlIdle /\ TxtIdle /\ CatIdle /\ GetIdle /\ RrIdle
NextLoc == Lookup
SpecLoc == InitLoc /\ [][NextLoc]_vars

InitCat == CatInit /\ TtlIdle /\ TxtIdle /\ LocIdle /\ GetIdle /\ RrIdle
NextCat ==
    \/ \E connected \in BOOLEAN : LoadZonesBegin(connected)
    \/ \E reply \in ScanReplies : LoadZonesScan(reply)
    \/ \E countOk \in BOOLEAN : LoadZonesEnd(countOk)
    \/ LoadZonesStore
    \/ \E reply \in KeysReplies : ListZones(reply)
SpecCat == InitCat /\ [][NextCat]_vars

\* The refresh with a query reading the zone list beside it.
NextSwap ==
    \/ \E connected \in BOOLEAN : LoadZonesBegin(connected)
    \/ \E reply \in ScanReplies : LoadZonesScan(reply)
    \/ \E countOk \in BOOLEAN : LoadZonesEnd(countOk)
    \/ LoadZonesStore
    \/ \E obs \in RacyReads(Zones, zones) : ReadZones(obs)
SpecSwap == InitCat /\ [][NextSwap]_vars

InitGet == GetInit /\ TtlConfig /\ TxtIdle /\ LocIdle /\ CatIdle /\ RrIdle
NextGet == GetA
SpecGet == InitGet /\ [][NextGet]_vars

InitRr == CatIdle /\ RrInit /\ TtlIdle /\ TxtIdle /\ LocIdle /\ GetIdle
NextRr ==
    \/ \E c \in Callers : Exec(c)
    \/ \E c \in Callers : Glue(c)
    \/ \E c \in Callers, ok \in BOOLEAN : SetTtl(c, ok)
    \/ Tick
SpecRr == InitRr /\ [][NextRr]_vars

InitAxfr == CatIdle /\ AxfrInit /\ TtlConfig /\ TxtIdle /\ LocIdle /\ RrIdle
NextAxfr ==
    \/ \E t \in SynTypes, key \in HashFields : Synthesize(t, key)
    \/ \E order \in Orders(load(hash).Locations) : Axfr(order)
SpecAxfr == InitAxfr /\ [][NextAxfr]_vars

(***************************************************************************)
(* Claims                                                                  *)
(***************************************************************************)

\* The relative name a query stands for: the query without "." + zone name.
Relative(q) == SubSeq(q, 1, Len(q) - Len(ZoneName) - 1)

\* The name left after removing the leading label (empty when it is the last).
Peel(r) ==
    IF \E i \in 1..Len(r) : r[i] = "."
    THEN LET i == CHOOSE i \in 1..Len(r) : r[i] = "." /\ \A j \in 1..(i - 1) : r[j] # "."
         IN  SubSeq(r, i + 1, Len(r))
    ELSE <<>>

Exists(e) == e \in Locations \/ \E l \in Locations : HasSuffix(l, e)

StarDot(e) == <<"*", ".">> \o e
StarOrStarDot(e) == IF e = <<>> THEN <<"*">> ELSE <<"*", ".">> \o e
Wild(e, literal) == IF literal THEN StarDot(e) ELSE StarOrStarDot(e)

\* What the resolver is to return for r, not itself a location: the wildcard
\* name of the first existing encloser if that name is a location, else "".
RECURSIVE Synthesis(_, _)
Synthesis(r, literal) ==
    IF r = <<>> THEN <<>>
    ELSE LET e == Peel(r)
         IN  IF Exists(e)
             THEN (IF Wild(e, literal) \in Locations THEN Wild(e, literal) ELSE <<>>)
             ELSE Synthesis(e, literal)

\* C1 (as stated): for a query equal to the zone name findLocation returns "@".
C1_ReturnsAt ==
    (looked /\ query = ZoneName) => location = Apex

\* C1 (amended): for a query equal to the zone name findLocation returns the
\* zone name itself, and get() reads the hash field "@" for it.
C1_Apex ==
    (looked /\ query = ZoneName) => (location = ZoneName /\ field = Apex)

C1_Witness ==
    /\ looked
    /\ query = ZoneName
    /\ field = Apex
    /\ Locations # {}

\* C2 (as stated): for a relative name that is no location, the result is
\* "*." + e for the first existing encloser e when that name is a location,
\* and "" otherwise.
C2_StarDotEncloser ==
    (looked /\ query # ZoneName /\ Relative(query) \notin Locations)
        => location = Synthesis(Relative(query), TRUE)

\* C2 (amended): as stated, except that the wildcard of the empty encloser
\* (all labels peeled) is "*", not "*." followed by nothing.
C2_Synthesis ==
    (looked /\ query # ZoneName /\ Relative(query) \notin Locations)
        => location = Synthesis(Relative(query), FALSE)

C2_Witness ==
    /\ looked
    /\ Locations = {<<"a", ".", "b">>, <<"*", ".", "a", ".", "b">>}
    /\ Relative(query) = <<"x", ".", "a", ".", "b">>
    /\ location = <<"*", ".", "a", ".", "b">>

\* Labels of a relative name.
Labels(r) == IF r = <<>> THEN 0 ELSE 1 + Cardinality({i \in 1..Len(r) : r[i] = "."})

\* C19: findLocation ends after at most one loop pass per label of the query,
\* and its result is "" (no match), the zone name (only for a query equal to
\* the zone name) or a member of the zone's locations.
C19_ResultIsKnown ==
    looked =>
        /\ \/ location = <<>>
           \/ location = ZoneName /\ query = ZoneName
           \/ location \in Locations
        /\ query # ZoneName =>
              searchPasses(splitQuery(Relative(query)), Zone) <= Labels(Relative(query))

C19_Witness ==
    /\ looked
    /\ query # ZoneName
    /\ Relative(query) \notin Locations
    /\ Labels(Relative(query)) = 3
    /\ location = <<"*">>
    /\ searchPasses(splitQuery(Relative(query)), Zone) = 3

\* An encloser is known when it is the zone apex (nothing left to peel), a
\* location, or has a location beneath it: one ending in "." + e.
ExistsAtBoundary(e) ==
    \/ e = <<>>
    \/ e \in Locations
    \/ \E l \in Locations : HasSuffix(l, Dot \o e)

\* The wildcard of the closest known encloser of r if it is a location, else "".
RECURSIVE SynthesisAtBoundary(_)
SynthesisAtBoundary(r) ==
    IF r = <<>> THEN <<>>
    ELSE LET e == Peel(r)
         IN  IF ExistsAtBoundary(e)
             THEN (IF StarOrStarDot(e) \in Locations THEN StarOrStarDot(e) ELSE <<>>)
             ELSE SynthesisAtBoundary(e)

\* C16 (as stated): for a query that is no location the search stops at the
\* closest ancestor that is a location or has a location beneath it at a
\* label boundary, and answers with that ancestor's wildcard or no match; a
\* location that only ends with the ancestor's characters does not count.
C16_KnownAncestor ==
    (looked /\ query # ZoneName /\ Relative(query) \notin Locations)
        => location = SynthesisAtBoundary(Relative(query))

\* C3 (as stated): while the :ttl key of an RRset lives and its row does not
\* change, a later response never reports a larger TTL than an earlier one.
C3_NeverIncreases ==
    Len(decayed) = 2 => decayed[2] <= decayed[1]

\* The TTL written in a row: its first field, as an unsigned 32-bit number.
RowTtl(rData) == UInt32(Atoi(Fields(rData)[1]))

\* C4: a call SETs the :ttl key of its RRset exactly when the TTL read gave
\* -2 and the row decoded; the expiry is then the TTL of the first answer and
\* the answers keep the row's TTL.  After any other TTL read no SET is sent
\* and every answer carries the remaining lifetime.
C4_WriteCondition ==
    (lastCall.done /\ ~lastCall.panic) =>
        /\ (lastCall.set # <<>>) <=> (lastCall.rem = NoKey /\ lastCall.decoded)
        /\ lastCall.set # <<>> =>
              /\ Len(lastCall.set) = 1
              /\ lastCall.set[1].key = RowOf(lastCall.req)
              /\ lastCall.answers # <<>>
              /\ lastCall.set[1].ex = lastCall.answers[1].Ttl
              /\ \A i \in 1..Len(lastCall.answers) :
                    lastCall.answers[i].Ttl = RowTtl(lastCall.rData)
        /\ (lastCall.decoded /\ lastCall.rem # NoKey) =>
              /\ lastCall.answers # <<>>
              /\ \A i \in 1..Len(lastCall.answers) :
                    lastCall.answers[i].Ttl = lastCall.rem

C4_Witness ==
    /\ lastCall.set # <<>>
    /\ ~lastCall.err
    /\ lastCall.req.type = TypeNS
    /\ ttlKeys[RowOf(lastCall.req)] = lastCall.answers[1].Ttl

\* The row of the last call is one parseRecordValuesFromString refuses.
RefusedRow ==
    LET fields == Fields(lastCall.rData)
    IN  \/ Len(fields) < 4
        \/ fields[3] # lastCall.req.type
        \/ ~AtoiOk(fields[1])
        \/ lastCall.req.type \notin {TypeA, TypeNS, TypeSOA}

\* The row of the last call is an NS row naming a host that is not fully qualified.
UnqualifiedHost ==
    LET fields == Fields(lastCall.rData)
    IN  /\ lastCall.req.type = TypeNS
        /\ Len(fields) >= 4
        /\ \E i \in 4..Len(fields) : ~IsFqdn(fields[i])

\* C14: a row with fewer than 4 fields, with another type than the one asked
\* for, with a TTL that is no integer, or asked for under a type other than
\* A, NS and SOA, gives an error and no records; an NS host that is not fully
\* qualified gives an error; in each case the call sends no SET for the :ttl
\* key of its RRset.
C14_DecodeErrors ==
    (lastCall.done /\ lastCall.rData # <<>>) =>
        /\ RefusedRow =>
              /\ lastCall.err /\ ~lastCall.panic
              /\ lastCall.answers = <<>> /\ lastCall.extras = <<>>
              /\ lastCall.set = <<>>
              /\ ttlKeys[RowOf(lastCall.req)] = NoKey
        /\ UnqualifiedHost =>
              /\ lastCall.err /\ ~lastCall.panic
              /\ lastCall.set = <<>>
              /\ ttlKeys[RowOf(lastCall.req)] = NoKey

C14_Witness ==
    /\ lastCall.done
    /\ lastCall.req.type = TypeA
    /\ Len(Fields(lastCall.rData)) = 4
    /\ Fields(lastCall.rData)[3] = TypeNS
    /\ lastCall.err
    /\ calls = 2

\* C18 (as stated): an SOA row with at least 4 fields whose data fields are not
\* exactly 7 ends in an error handed to the caller, never in a panic.
C18_SoaArity ==
    LET fields == Fields(lastCall.rData)
    IN  (/\ lastCall.done
         /\ lastCall.req.type = TypeSOA
         /\ Len(fields) >= 4
         /\ fields[3] = TypeSOA
         /\ AtoiOk(fields[1])
         /\ Len(fields) - 3 # 7)
            => (lastCall.err /\ ~lastCall.panic)

\* The record-level ttl stored for the first entry of type t in value v.
StoredTtl(t, v) ==
    IF t = "CAA" THEN 0
    ELSE IF t = "SOA" THEN v.SOA.Ttl
    ELSE v[t][1].Ttl

\* C12 (as stated): no record a synthesizer emits has TTL 0, and when the
\* configured ceiling and the record-level ttl are both 0 the TTL is 360.
C12_NoZeroTtl ==
    (synth # NoSynth) =>
        \A i \in 1..Len(synth.answers) :
            /\ synth.answers[i].Ttl # 0
            /\ (Ttl = 0 /\ StoredTtl(synth.type, hash[synth.key]) = 0)
                   => synth.answers[i].Ttl = defaultTtl

\* C11 (as stated): the records of a transfer of a zone that has locations
\* begin and end with an SOA record.
C11_SoaFraming ==
    (axfrDone /\ load(hash).Locations # {}) =>
        /\ records # <<>>
        /\ records[1].Rrtype = "SOA"
        /\ records[Len(records)].Rrtype = "SOA"

\* Type t is stored in value v.
Stored(t, v) ==
    /\ v.present /\ v.json
    /\ IF t = "SOA" THEN v.SOA.Ns # <<>> ELSE v[t] # <<>>

\* What the synthesizer of type t gives for the location key.
Synthesized(t, key) ==
    LET z == load(hash)
        name == IF key = Apex THEN z.Name ELSE Fqdn(key) \o z.Name
    IN  Synthesizer(t, name, z, get(findLocation(name, z), z)).answers

\* C17 (as stated): a transfer holds, for every location and every type
\* stored there, each record the type's synthesizer gives for the location.
C17_AxfrComplete ==
    axfrDone =>
        \A key \in load(hash).Locations, t \in SynTypes :
            Stored(t, hash[key]) =>
                \A i \in 1..Len(Synthesized(t, key)) :
                    \E j \in 1..Len(records) : records[j] = Synthesized(t, key)[i]

\* C5 (as stated): after a successful LoadZones the zone list holds no zone
\* name twice, whatever the key prefix and however often SCAN repeats a key.
C5_NoDuplicateZones ==
    lzPc = "done" => NoRepeat(Zones)

\* C6 (as stated): a refresh that fails at any step (no connection, a SCAN
\* error, an undecodable reply) ends without crashing and leaves Zones,
\* LastZoneUpdate and lastKeyCount as they were when it began.
C6_FailureKeepsSnapshot ==
    lzPc \in {"failed", "panicked"} =>
        /\ lzPc # "panicked"
        /\ Zones = before.Zones
        /\ LastZoneUpdate = before.LastZoneUpdate
        /\ lastKeyCount = before.lastKeyCount

\* A backend key without the configured prefix and suffix.
Strip(key) == TrimSuffix(TrimPrefix(key, keyPrefix), keySuffix)

\* C13 (as stated): every zone name of either discovery path, the scan of
\* LoadZones and the listing of LoadAllZoneNames, is a backend key with the
\* key prefix taken from its front and the key suffix from its end.
C13_BothAffixesStripped ==
    /\ lzPc = "done" =>
          \A i \in 1..Len(Zones) : \E zn \in dbKeys : Zones[i] = Strip(ZoneKey(zn))
    /\ (listed.done /\ ~listed.err) =>
          \A i \in 1..Len(listed.zones) :
              \E zn \in dbKeys : listed.zones[i] = Strip(ZoneKey(zn))

\* C15 (as stated): what a query reads from the zone list during a refresh
\* is the whole previous list or the whole new list.
C15_SnapshotSwap ==
    seen.read =>
        /\ ~seen.fault
        /\ \/ seen.list = before.Zones
           \/ lzPc \in {"store", "done"} /\ seen.list = zones

\* What the caller gets for a field the hash does not have.
NoMatchOutcome ==
    LET rec == getWith(TRUE, FALSE, [f \in HashFields |-> Absent], getKey, Zone)
    IN  <<rec, A(NameOf(getKey), Zone, rec)>>

\* The lookup hit a backend failure or a value that is no JSON.
LookupFailed ==
    \/ ~poolConn
    \/ hgetFails
    \/ (HGET(hash, getLabel(getKey, Zone)).present
           /\ ~HGET(hash, getLabel(getKey, Zone)).json)

\* C10 (as stated): a backend failure or a JSON decode failure gives the
\* caller an outcome different from the one for a field that does not exist.
C10_ErrorsDistinct ==
    (getDone /\ LookupFailed) => <<record, answers>> # NoMatchOutcome

\* C7 (as stated): every emitted TXT RR of a text of n >= 1 bytes has exactly
\* ceil(n/255) chunks, each non-empty and at most 255 bytes long.
C7_ChunkShape ==
    \A k \in 1..Len(txtAnswers) :
        /\ Len(txtAnswers[k]) = CeilDiv(Len(txtText), chunkLen)
        /\ \A j \in 1..Len(txtAnswers[k]) :
              /\ Len(txtAnswers[k][j]) >= 1
              /\ Len(txtAnswers[k][j]) <= chunkLen

\* C8: concatenating the chunks of an emitted TXT RR in order gives back the
\* stored text, for every length including exact multiples of 255.
C8_RoundTrip ==
    \A k \in 1..Len(txtAnswers) : Concat(txtAnswers[k]) = txtText

C8_Witness ==
    /\ txtDone
    /\ Len(txtText) = 2 * chunkLen
    /\ Len(txtAnswers) = 1
    /\ Len(txtAnswers[1]) >= 2

\* C9: minTtl returns min(ceiling, record ttl) when both are non-zero, the
\* non-zero one when exactly one is zero, and 360 when both are zero.
C9_MinTtl ==
    ttlApplied =>
        effTtl = (CASE Ttl # 0 /\ recTtl # 0 -> (IF Ttl <= recTtl THEN Ttl ELSE recTtl)
                    [] Ttl = 0 /\ recTtl # 0 -> recTtl
                    [] Ttl # 0 /\ recTtl = 0 -> Ttl
                    [] OTHER -> 360)

C9_Witness ==
    /\ ttlApplied
    /\ Ttl = 30
    /\ recTtl = 50
    /\ effTtl = 30

====
